---- MODULE Spec2Model ----
(***************************************************************************)
(* Model of labubu_bot.py: the killboard Poller (check_player_events, a    *)
(* discord.ext.tasks loop), the on_ready handler that connects the         *)
(* database and starts the loop, and the register / unregister commands.   *)
(*                                                                         *)
(* Persisted state (MongoDB collections) survives a process restart; the   *)
(* global db handle, the loop task and the tick's locals do not.           *)
(*                                                                         *)
(* One action is one run of the code between two suspension points of the  *)
(* asyncio scheduler (await channel.send, await asyncio.sleep) or one      *)
(* blocking HTTP call.  Database operations made through an established    *)
(* handle (find, find_one, insert_one, update_one, delete_one) are taken   *)
(* to succeed; the database being unreachable is modelled where the code   *)
(* handles it, in on_ready.                                                *)
(***************************************************************************)
EXTENDS Integers, Sequences, FiniteSets, TLC

\* ----------------------------------------------------------------- bounds
MaxEventId   == 2   \* event ids the Event Source hands out: 1..MaxEventId
MaxEvents    == 2   \* longest event list one fetch returns
MaxOwners    == 2   \* Discord users issuing commands
MaxPlayerId  == 1   \* Albion player ids search_player can return

EventIds  == 1..MaxEventId
Owners    == 1..MaxOwners
PlayerIds == 1..MaxPlayerId

None == "None"
\* search_player returning None, among player ids
NoPlayer == 0

\* ------------------------------------------------------------ conversions
Digits == <<"0", "1", "2", "3", "4", "5", "6", "7", "8", "9">>

\* str(event['EventId']): the decimal digits of a non-negative integer
RECURSIVE str(_)
str(n) == IF n < 10 THEN <<Digits[n + 1]>>
          ELSE str(n \div 10) \o <<Digits[(n % 10) + 1]>>

EventKeys == {str(n) : n \in EventIds}

RECURSIVE SeqsUpTo(_, _)
SeqsUpTo(S, n) == IF n = 0 THEN {<<>>}
                  ELSE LET shorter == SeqsUpTo(S, n - 1)
                       IN  shorter \cup {Append(s, x) : s \in {t \in shorter : Len(t) = n - 1}, x \in S}

\* What one HTTP call of get_player_events can come back with
Responses == [status : {200}, body : SeqsUpTo(EventIds, MaxEvents)]
             \cup [status : {429, 500}, body : {<<>>}]

VARIABLES
    \* --- persisted (MongoDB)
    registered_players,  \* sequence of documents [_id, player_data], in natural order
    processed_events,    \* set of _id strings
    \* --- process globals
    KILLBOARD_CHANNEL_ID,\* None or the configured channel id
    db,                  \* None or the database handle
    bot_ready,           \* bot.is_ready()
    loop,                \* the tasks.Loop task: unstarted, before_loop, sleeping, running, dead
    timer_due,           \* the loop's next iteration time has passed
    \* --- locals of the running tick
    pc,                  \* idle, fetch, send, sleep
    players,             \* the cursor of players_collection.find(): its head is player_doc
    events,              \* events not yet looked at; its head is the one being sent when pc = "send"
    \* --- the outside world and history
    notifiedBefore,      \* event_ids delivered to the channel by earlier processes
    lostInFlight,        \* ... whose send was in flight when the process was stopped
    sentProc,            \* per event_id: notifications delivered by the current process
    sentTick,            \* ... by the current (or last) tick
    tickStartStore,      \* processed_events when the current (or last) tick began
    tickFetched,         \* event_ids the Event Source returned to the current (or last) tick
    tickRefetched,       \* ... returned again to a later player_doc of the same tick
    tickResult,          \* none, running, skipped, completed, fetch_raised, send_raised
    prevSeen,            \* event_ids the tick before was fed, if it ran to its end
    inFlight,            \* executions of check_player_events begun and not ended
    connectedOnce,       \* the current process got a database connection in on_ready
    reply,               \* what the last command answered with ctx.send
    matched_count        \* documents the last register's update_one found for its _id

persisted == <<registered_players, processed_events>>
globals   == <<KILLBOARD_CHANNEL_ID, db, bot_ready, loop, timer_due>>
locals    == <<pc, players, events>>
tickHist  == <<tickStartStore, tickFetched, tickRefetched, sentTick, tickResult, prevSeen>>
history   == <<notifiedBefore, lostInFlight, sentProc, inFlight, connectedOnce>>
command   == <<reply, matched_count>>
vars      == <<persisted, globals, locals, tickHist, history, command>>

NoneSent == [k \in EventKeys |-> 0]

Init ==
    /\ registered_players = <<>>
    /\ processed_events = {}
    /\ KILLBOARD_CHANNEL_ID \in {None, "channel_id"}
    /\ db = None
    /\ bot_ready = FALSE
    /\ loop = "unstarted"
    /\ timer_due = FALSE
    /\ pc = "idle"
    /\ players = <<>>
    /\ events = <<>>
    /\ notifiedBefore = {}
    /\ lostInFlight = {}
    /\ sentProc = NoneSent
    /\ sentTick = NoneSent
    /\ tickStartStore = {}
    /\ tickFetched = {}
    /\ tickRefetched = {}
    /\ tickResult = "none"
    /\ prevSeen = {}
    /\ inFlight = 0
    /\ connectedOnce = FALSE
    /\ reply = "none"
    /\ matched_count = 0

\* ------------------------------------------------------------ collaborators

get_player_eventsWrongStatus(response) ==
    IF response.status # 200 THEN response.body ELSE <<>>

\* get_player_events: the JSON body on a 200, an empty list on anything else
get_player_events(response) ==
    IF response.status = 200 THEN response.body ELSE <<>>

IsUnseenAlways(event_id, store) == TRUE

IsUnseenNever(event_id, store) == FALSE

\* events_collection.find_one({'_id': event_id}) is None
IsUnseen(event_id, store) == event_id \notin store

insert_oneForgets(store, event_id) == store

\* events_collection.insert_one({'_id': event_id})
insert_one(store, event_id) == store \cup {event_id}

SkipSeenNothing(evs, store) == evs

\* The inner for loop up to its next suspension: events already in the store
\* are passed over, the first one that is not stays at the head to be sent.
RECURSIVE SkipSeen(_, _)
SkipSeen(evs, store) ==
    IF evs = <<>> THEN <<>>
    ELSE IF IsUnseen(str(Head(evs)), store) THEN evs
    ELSE SkipSeen(Tail(evs), store)

findSkipsFirst(coll) == IF coll = <<>> THEN <<>> ELSE Tail(coll)

\* players_collection.find(): a cursor over the documents the collection
\* holds when the for loop asks for its first one; a registry this small
\* comes in the cursor's first batch, so later commands do not show in it
find(coll) == coll

Ids(evs) == {str(evs[i]) : i \in 1..Len(evs)}

\* event['Killer'] and event['Victim']: each event has one player killing
\* another; the other one may be a player nobody registered
Killer(event) == [Id |-> 1 + ((event + 1) % (MaxPlayerId + 1))]

Victim(event) == [Id |-> 1 + (event % (MaxPlayerId + 1))]

\* The embed and the file built for an unseen event, lines 217-238: title,
\* description, thumbnail and image name; player_doc is the document the
\* outer loop is at
Embed(event, player_doc) ==
    [title       |-> <<Killer(event).Id, "killed", Victim(event).Id>>,
     description |-> <<"Killer", Killer(event).Id, "Victim", Victim(event).Id>>,
     thumbnail   |-> "kill__event.png",
     image       |-> "kill.png"]

LoopCanRunWhileRunning == loop \in {"sleeping", "running"} /\ timer_due

\* Loop._loop: the coroutine is awaited to its end before the loop looks at
\* the clock again, so an iteration begins only from the sleeping state.
LoopCanRun == loop = "sleeping" /\ timer_due

\* Loop.start(): refused while the task exists and is not done
TaskActive == loop \in {"before_loop", "sleeping", "running"}

TickGuardWithoutDb(channel) == KILLBOARD_CHANNEL_ID # None /\ channel # None

\* The early returns of check_player_events
TickGuard(channel) == db # None /\ KILLBOARD_CHANNEL_ID # None /\ channel # None

StartsLoopUnconnected(connected) == KILLBOARD_CHANNEL_ID # None

\* on_ready starts the loop once the connection attempt got past the ping
\* and the item database initialisation, and only with a configured channel
StartsLoop(connected) == connected /\ KILLBOARD_CHANNEL_ID # None

\* ------------------------------------------------------------------ on_ready

\* The gateway reports READY (first connect, or a reconnect that could not
\* resume) and on_ready runs; connected is whether MongoClient's ismaster
\* ping and _initialize_item_database's count_documents went through
on_ready(connected) ==
    LET starts == StartsLoop(connected)
        \* check_player_events.start() raises RuntimeError, caught at line 199
        raised == starts /\ TaskActive
    IN  /\ bot_ready' = TRUE
        /\ db' = IF connected /\ ~raised THEN "labubu_bot_db" ELSE None
        /\ connectedOnce' = (connectedOnce \/ connected)
        /\ IF starts /\ ~raised
           THEN loop' = "before_loop" /\ timer_due' = FALSE
           ELSE UNCHANGED <<loop, timer_due>>
        /\ UNCHANGED <<persisted, KILLBOARD_CHANNEL_ID, locals, tickHist,
                       notifiedBefore, lostInFlight, sentProc, inFlight, command>>

\* before_check_player_events: await bot.wait_until_ready(); the first
\* iteration is due at once
before_check_player_events ==
    /\ loop = "before_loop"
    /\ bot_ready
    /\ loop' = "sleeping"
    /\ timer_due' = TRUE
    /\ UNCHANGED <<persisted, KILLBOARD_CHANNEL_ID, db, bot_ready, locals, tickHist, history,
                   command>>

\* 60 seconds have passed since the last iteration began
TimerFire ==
    /\ loop \in {"sleeping", "running"}
    /\ ~timer_due
    /\ timer_due' = TRUE
    /\ UNCHANGED <<persisted, KILLBOARD_CHANNEL_ID, db, bot_ready, loop, locals, tickHist,
                   history, command>>

\* ------------------------------------------------------- check_player_events

NewTickHist(result) ==
    /\ prevSeen' = IF tickResult = "completed" THEN tickFetched ELSE {}
    /\ tickStartStore' = processed_events
    /\ tickFetched' = {}
    /\ tickRefetched' = {}
    /\ sentTick' = NoneSent
    /\ tickResult' = result

\* The loop calls the coroutine: lines 205-211. channel is what
\* bot.get_channel(KILLBOARD_CHANNEL_ID) returns.
TickStart(channel) ==
    /\ LoopCanRun
    /\ timer_due' = FALSE
    /\ IF ~TickGuard(channel)
       THEN /\ NewTickHist("skipped")
            /\ loop' = "sleeping"
            /\ UNCHANGED <<locals, inFlight>>
       ELSE IF registered_players = <<>>
       THEN /\ NewTickHist("completed")
            /\ loop' = "sleeping"
            /\ UNCHANGED <<locals, inFlight>>
       ELSE /\ NewTickHist("running")
            /\ loop' = "running"
            /\ players' = find(registered_players)
            /\ events' = <<>>
            /\ pc' = "fetch"
            /\ inFlight' = inFlight + 1
    /\ UNCHANGED <<persisted, KILLBOARD_CHANNEL_ID, db, bot_ready,
                   notifiedBefore, lostInFlight, sentProc, connectedOnce, command>>

\* Lines 212-216 for the player_doc at the head of players: the blocking
\* HTTP call came back with response, and the tick runs on to the first
\* unseen event
Fetch(response) ==
    /\ pc = "fetch"
    /\ LET evs == SkipSeen(get_player_events(response), processed_events)
       IN  /\ events' = evs
           /\ pc' = IF evs = <<>> THEN "sleep" ELSE "send"
    /\ LET returned == IF response.status = 200 THEN Ids(response.body) ELSE {}
       IN  /\ tickFetched' = tickFetched \cup returned
           /\ tickRefetched' = tickRefetched \cup (tickFetched \cap returned)
    /\ UNCHANGED <<persisted, globals, players, tickStartStore, sentTick, tickResult,
                   prevSeen, history, command>>

\* The iteration ends with an exception. Loop._loop retries after a backoff
\* when it is one of its valid exceptions (OSError, which the exceptions of
\* requests derive from, aiohttp.ClientError, ...); any other ends the task.
TickRaises(result, retried) ==
    /\ pc' = "idle"
    /\ players' = <<>>
    /\ events' = <<>>
    /\ tickResult' = result
    /\ inFlight' = inFlight - 1
    /\ loop' = IF retried THEN "sleeping" ELSE "dead"
    /\ timer_due' = IF retried THEN TRUE ELSE timer_due

\* requests.get raises inside get_player_events (line 101): nothing catches it
FetchRaises ==
    /\ pc = "fetch"
    /\ TickRaises("fetch_raised", TRUE)
    /\ UNCHANGED <<persisted, KILLBOARD_CHANNEL_ID, db, bot_ready,
                   tickStartStore, tickFetched, tickRefetched, sentTick, prevSeen,
                   notifiedBefore, lostInFlight, sentProc, connectedOnce, command>>

Delivered(count, event_id) == [count EXCEPT ![event_id] = @ + 1]

\* await channel.send(...) returns, then lines 241 and 214-216 up to the
\* next unseen event
SendReturns ==
    /\ pc = "send"
    /\ LET event_id == str(Head(events))
           store    == insert_one(processed_events, event_id)
           evs      == SkipSeen(Tail(events), store)
       IN  /\ sentProc' = Delivered(sentProc, event_id)
           /\ sentTick' = Delivered(sentTick, event_id)
           /\ processed_events' = store
           /\ events' = evs
           /\ pc' = IF evs = <<>> THEN "sleep" ELSE "send"
    /\ UNCHANGED <<registered_players, globals, players, tickStartStore, tickFetched,
                   tickRefetched, tickResult, prevSeen, notifiedBefore, lostInFlight,
                   inFlight, connectedOnce, command>>

SendRaisesMarksSeen(retried) ==
    /\ pc = "send"
    /\ TickRaises("send_raised", retried)
    /\ processed_events' = insert_one(processed_events, str(Head(events)))
    /\ UNCHANGED <<registered_players, KILLBOARD_CHANNEL_ID, db, bot_ready,
                   tickStartStore, tickFetched, tickRefetched, sentTick, prevSeen,
                   notifiedBefore, lostInFlight, sentProc, connectedOnce, command>>

\* await channel.send(...) raises (line 240): nothing catches it. retried
\* tells a connection error from a discord.HTTPException.
SendRaises(retried) ==
    /\ pc = "send"
    /\ TickRaises("send_raised", retried)
    /\ UNCHANGED <<persisted, KILLBOARD_CHANNEL_ID, db, bot_ready,
                   tickStartStore, tickFetched, tickRefetched, sentTick, prevSeen,
                   notifiedBefore, lostInFlight, sentProc, connectedOnce, command>>

\* await asyncio.sleep(3) returns (line 242): next player, or the tick ends
SleepReturns ==
    /\ pc = "sleep"
    /\ IF Len(players) > 1
       THEN /\ players' = Tail(players)
            /\ pc' = "fetch"
            /\ UNCHANGED <<events, loop, tickResult, inFlight>>
       ELSE /\ pc' = "idle"
            /\ players' = <<>>
            /\ events' = <<>>
            /\ loop' = "sleeping"
            /\ tickResult' = "completed"
            /\ inFlight' = inFlight - 1
    /\ UNCHANGED <<persisted, KILLBOARD_CHANNEL_ID, db, bot_ready, timer_due,
                   tickStartStore, tickFetched, tickRefetched, sentTick, prevSeen,
                   notifiedBefore, lostInFlight, sentProc, connectedOnce, command>>

\* ------------------------------------------------------------------ commands

HasDoc(coll, id) == \E i \in 1..Len(coll) : coll[i]._id = id

update_oneInserts(coll, id, data) == Append(coll, [_id |-> id, player_data |-> data])

\* update_one({'_id': id}, {'$set': {'player_data': data}}, upsert=True)
update_one(coll, id, data) ==
    IF HasDoc(coll, id)
    THEN [i \in 1..Len(coll) |->
            IF coll[i]._id = id THEN [coll[i] EXCEPT !.player_data = data] ELSE coll[i]]
    ELSE Append(coll, [_id |-> id, player_data |-> data])

\* delete_one({'_id': id}): the collection without its first document of that _id
RECURSIVE delete_one(_, _)
delete_one(coll, id) ==
    IF coll = <<>> THEN <<>>
    ELSE IF Head(coll)._id = id THEN Tail(coll)
    ELSE <<Head(coll)>> \o delete_one(Tail(coll), id)

\* result.deleted_count of delete_one({'_id': id})
deleted_count(coll, id) == Len(coll) - Len(delete_one(coll, id))

\* !register by author; player_data is what search_player returned
register(author, player_data) ==
    /\ bot_ready
    /\ IF db = None
       THEN /\ reply' = "database_not_connected"
            /\ matched_count' = 0
            /\ UNCHANGED registered_players
       ELSE IF player_data = NoPlayer
       THEN /\ reply' = "could_not_find"
            /\ matched_count' = 0
            /\ UNCHANGED registered_players
       ELSE /\ registered_players' = update_one(registered_players, author, player_data)
            /\ matched_count' = IF HasDoc(registered_players, author) THEN 1 ELSE 0
            /\ reply' = "now_being_tracked"
    /\ UNCHANGED <<processed_events, globals, locals, tickHist, history>>

\* !unregister by author
unregister(author) ==
    /\ bot_ready
    /\ IF db = None
       THEN reply' = "database_not_connected" /\ UNCHANGED registered_players
       ELSE /\ registered_players' = delete_one(registered_players, author)
            /\ reply' = IF deleted_count(registered_players, author) > 0
                        THEN "removed" ELSE "not_registered"
    /\ matched_count' = 0
    /\ UNCHANGED <<processed_events, globals, locals, tickHist, history>>

\* ------------------------------------------------------------------- process

\* The process is stopped wherever it is and started again (lines 316-326
\* run anew). A send in flight had either reached the channel or not.
Restart(delivered) ==
    /\ delivered => pc = "send"
    /\ notifiedBefore' = notifiedBefore \cup {k \in EventKeys : sentProc[k] > 0}
                         \cup (IF delivered THEN {str(Head(events))} ELSE {})
    /\ lostInFlight' = lostInFlight \cup (IF delivered THEN {str(Head(events))} ELSE {})
    /\ db' = None
    /\ bot_ready' = FALSE
    /\ loop' = "unstarted"
    /\ timer_due' = FALSE
    /\ pc' = "idle"
    /\ players' = <<>>
    /\ events' = <<>>
    /\ sentProc' = NoneSent
    /\ sentTick' = NoneSent
    /\ tickStartStore' = {}
    /\ tickFetched' = {}
    /\ tickRefetched' = {}
    /\ tickResult' = "none"
    /\ prevSeen' = {}
    /\ inFlight' = 0
    /\ connectedOnce' = FALSE
    /\ reply' = "none"
    /\ matched_count' = 0
    /\ UNCHANGED <<persisted, KILLBOARD_CHANNEL_ID>>

Next ==
    \/ \E connected \in BOOLEAN : on_ready(connected)
    \/ before_check_player_events
    \/ TimerFire
    \/ \E channel \in {None, "channel"} : TickStart(channel)
    \/ \E response \in Responses : Fetch(response)
    \/ FetchRaises
    \/ SendReturns
    \/ \E retried \in BOOLEAN : SendRaises(retried)
    \/ SleepReturns
    \/ \E author \in Owners, player_data \in PlayerIds \cup {NoPlayer} : register(author, player_data)
    \/ \E author \in Owners : unregister(author)
    \/ \E delivered \in BOOLEAN : Restart(delivered)

Spec == Init /\ [][Next]_vars

\* The Poller with its surroundings in order: the process stays up, the
\* database answers on_ready, the channel exists, every fetch gets a 200
\* and every send returns
OkResponses == {response \in Responses : response.status = 200}

LiveNext ==
    \/ on_ready(TRUE)
    \/ before_check_player_events
    \/ TimerFire
    \/ TickStart("channel")
    \/ \E response \in OkResponses : Fetch(response)
    \/ SendReturns
    \/ SleepReturns
    \/ \E author \in Owners, player_data \in PlayerIds \cup {NoPlayer} : register(author, player_data)
    \/ \E author \in Owners : unregister(author)

\* The event loop runs every coroutine that can go on: wait_until_ready,
\* the HTTP call, the send and the sleep return, and the loop's timer fires
\* and calls the coroutine again
Fairness ==
    /\ WF_vars(before_check_player_events)
    /\ WF_vars(TimerFire)
    /\ WF_vars(TickStart("channel"))
    /\ WF_vars(\E response \in OkResponses : Fetch(response))
    /\ WF_vars(SendReturns)
    /\ WF_vars(SleepReturns)

LiveSpec == Init /\ [][LiveNext]_vars /\ Fairness


\* =================================================================== claims

C2_SecondTickIdempotent ==
    /\ \A k \in prevSeen : sentTick[k] = 0
    /\ (tickResult # "none" /\ tickFetched \subseteq prevSeen) =>
           processed_events = tickStartStore

C2_Witness ==
    /\ tickResult = "completed"
    /\ prevSeen # {}
    /\ tickFetched = prevSeen

\* C3: a tick that ends without failure and was fed only event_ids absent
\* from the store when it began has sent exactly one notification for each
\* of them, none for any other, and the store is what it was plus those ids.
C3_ExactlyOncePerNewEvent ==
    (tickResult = "completed" /\ tickFetched \cap tickStartStore = {}) =>
        /\ \A k \in EventKeys : sentTick[k] = IF k \in tickFetched THEN 1 ELSE 0
        /\ processed_events = tickStartStore \cup tickFetched

C3_Witness ==
    /\ tickResult = "completed"
    /\ tickFetched \cap tickStartStore = {}
    /\ Cardinality(tickFetched) = 2

\* A fetch that fails: requests.get raises, or the answer is not a 200
FailedFetch == FetchRaises \/ \E r \in Responses : r.status # 200 /\ Fetch(r)

\* C4: a fetch that fails, by a non-200 answer or by an exception of the
\* HTTP call, counts as no events for that player: nothing is sent or
\* stored for it and the tick goes on to the remaining players.
C4_FailedFetchYieldsNoEvents ==
    [][FailedFetch => /\ pc' = "sleep"
                      /\ loop' = "running"
                      /\ players' = players
                      /\ UNCHANGED <<processed_events, sentTick>>]_vars

\* C5: when the fetch for a later player raises, what the tick sent for
\* earlier players stays sent and stays recorded in the store.
C5_EarlierWorkKept ==
    tickResult = "fetch_raised" =>
        \A k \in EventKeys : sentTick[k] >= 1 => k \in processed_events

C5_Witness ==
    /\ tickResult = "fetch_raised"
    /\ \E k \in EventKeys : sentTick[k] >= 1

\* C6: at most one execution of check_player_events is in flight; a timer
\* that fires during a tick waits for it.
C6_OneTickInFlight == inFlight <= 1

\* The timer fired while the tick was suspended in a send or in the sleep.
C6_Witness == loop = "running" /\ timer_due /\ pc \in {"send", "sleep"}

\* C7: the loop is started, and a tick does anything, only once the bot is
\* ready and on_ready got its database connection.
C7_NoTickBeforeReadyAndConnected ==
    (loop # "unstarted" \/ pc # "idle" \/ tickResult # "none") =>
        (bot_ready /\ connectedOnce)

C7_Witness == pc = "fetch" /\ tickResult = "running"

\* C8: a tick that finds no database handle, no configured channel or no
\* channel object returns at once: nothing sent, nothing persisted changes,
\* and the loop lives on.
C8_NoWorkWithoutDbOrChannel ==
    [][\A channel \in {None, "channel"} :
          (TickStart(channel) /\ (db = None \/ KILLBOARD_CHANNEL_ID = None \/ channel = None))
          => /\ tickResult' = "skipped"
             /\ loop' = "sleeping"
             /\ pc' = "idle"
             /\ sentTick' = NoneSent
             /\ UNCHANGED <<persisted, sentProc>>]_vars

C8_Witness == tickResult = "skipped" /\ db = None /\ loop = "sleeping"

\* C9: when the send of an unseen event fails, the event is marked seen all
\* the same and the tick goes on with its remaining events and players.
C9_FailedSendStillMarksSeen ==
    [][\A retried \in BOOLEAN :
          SendRaises(retried) => /\ str(Head(events)) \in processed_events'
                                 /\ loop' = "running"
                                 /\ pc' \in {"send", "sleep"}]_vars

\* C10: after a tick is abandoned anywhere in its loops, the next run
\* notifies no event_id that was notified before the abandonment.
C10_NoRenotifyAfterAbandon == \A k \in notifiedBefore : sentProc[k] = 0

\* C10 as amended: the next run notifies no event_id that was notified and
\* recorded before the abandonment; the event whose send was in flight
\* when the process stopped is the only one it can notify again.
C10_NoRenotifyOfRecorded == \A k \in notifiedBefore \ lostInFlight : sentProc[k] = 0

\* The run after a restart was fed an event notified and recorded before
\* it, next to one that was lost in flight.
C10_Witness ==
    /\ lostInFlight # {}
    /\ \E k \in notifiedBefore \ lostInFlight : k \in tickFetched /\ tickResult = "completed"

\* s is what is left of t after some of its first elements
IsSuffix(s, t) ==
    /\ Len(s) <= Len(t)
    /\ \A i \in 1..Len(s) : s[i] = t[Len(t) - Len(s) + i]

\* A register or unregister has changed the registry since the running
\* tick took its cursor: what the cursor has left is no longer the end of
\* the registry
CommandDuringTick == loop = "running" /\ ~IsSuffix(players, registered_players)

\* C11: a register or unregister that runs while a tick is suspended leaves
\* the tick whole: it still has its cursor and its place, it has sent at
\* most one notification per event_id and has dealt with every event it
\* was handed before it sleeps, and it runs on to its end.
C11_CommandsLeaveTickWhole ==
    /\ [](CommandDuringTick =>
            /\ \A k \in EventKeys : sentProc[k] <= 1 /\ sentTick[k] <= 1
            /\ pc \in {"fetch", "send", "sleep"}
            /\ players # <<>>
            /\ inFlight = 1
            /\ tickResult = "running"
            /\ pc = "sleep" => tickFetched \subseteq processed_events)
    /\ CommandDuringTick ~> (tickResult = "completed" /\ tickFetched \subseteq processed_events)

\* A command changed the registry while the tick was suspended in a send
\* of an event, and the tick had notified another event before.
C11_Witness ==
    /\ CommandDuringTick
    /\ pc = "send"
    /\ \E k \in EventKeys : sentTick[k] = 1

\* C12: the store is keyed by the event_id alone. An event a later
\* player_doc of the tick is handed again, after an earlier one was handed
\* it, is in the store by then: the earlier iteration has notified it once
\* unless it was seen before the tick, and the later iteration does not
\* send it.
C12_SecondPlayerEmitsNothing ==
    \A k \in tickRefetched :
        /\ k \in processed_events
        /\ sentTick[k] = IF k \in tickStartStore THEN 0 ELSE 1
        /\ pc = "send" => str(Head(events)) # k

\* Two documents were handed the same new event in one tick that ran to
\* its end.
C12_Witness ==
    /\ tickResult = "completed"
    /\ \E k \in tickRefetched : k \notin tickStartStore /\ sentTick[k] = 1

\* No two documents of a collection have the same _id
OnePerOwner(coll) ==
    \A i, j \in 1..Len(coll) : coll[i]._id = coll[j]._id => i = j

\* C13: the registry never holds two documents of one owner, and a
\* register by any owner for any player, on the registry as it is, leaves
\* that owner with one document, bound to that player: a new document when
\* the owner had none, the same document rebound when the owner had one.
C13_OneBindingPerOwner ==
    /\ OnePerOwner(registered_players)
    /\ \A author \in Owners, player_data \in 1..(MaxPlayerId + 1) :
          LET after == update_one(registered_players, author, player_data)
          IN  /\ OnePerOwner(after)
              /\ \E i \in 1..Len(after) :
                    after[i] = [_id |-> author, player_data |-> player_data]
              /\ Len(after) = IF HasDoc(registered_players, author)
                              THEN Len(registered_players)
                              ELSE Len(registered_players) + 1

\* An owner who had a binding registered again, next to another owner's
\* binding.
C13_Witness ==
    /\ reply = "now_being_tracked"
    /\ matched_count = 1
    /\ Len(registered_players) = 2

\* C14: a tick iterates the registry as it was committed when the tick
\* began. The tick that starts takes the whole registry as its cursor; the
\* cursor of a running tick changes only by the tick moving on by one
\* document, and the tick ends complete only from its last document. An
\* unregister through the database leaves no document of its owner, so no
\* tick starting later fetches for it, and a register leaves the owner
\* bound to the player, so every tick starting later does. An unregister
\* by an owner with no document answers "not registered" and leaves the
\* registry as it was.
C14_TickIteratesCommittedRegistry ==
    [][/\ \A channel \in {None, "channel"} :
            (TickStart(channel) /\ tickResult' = "running") =>
                /\ players' = registered_players
                /\ pc' = "fetch"
       /\ (tickResult = "running" /\ tickResult' = "running" /\ players' # players) =>
            /\ pc = "sleep" /\ pc' = "fetch"
            /\ players' = Tail(players)
       /\ (tickResult = "running" /\ tickResult' = "completed") =>
            /\ pc = "sleep"
            /\ Len(players) = 1
       /\ \A author \in Owners :
            (unregister(author) /\ db # None) =>
                /\ ~HasDoc(registered_players', author)
                /\ HasDoc(registered_players, author) => reply' = "removed"
                /\ ~HasDoc(registered_players, author) =>
                      /\ reply' = "not_registered"
                      /\ registered_players' = registered_players
       /\ \A author \in Owners, player_data \in PlayerIds :
            (register(author, player_data) /\ db # None) =>
                \E i \in 1..Len(registered_players') :
                    registered_players'[i] = [_id |-> author, player_data |-> player_data]
      ]_vars

\* A tick is at the only document of the registry, the registry being
\* what the tick took, and the last command was an unregister by the owner
\* who has no document.
C14_Witness ==
    /\ tickResult = "running"
    /\ pc = "fetch"
    /\ Len(players) = 1
    /\ players = registered_players
    /\ reply = "not_registered"

\* What a notification presents the event as: the embeds of the code are
\* titled "<killer> killed <victim>" under the kill thumbnail
Kind(embed) ==
    IF embed.title[2] = "killed" /\ embed.thumbnail = "kill__event.png"
    THEN "kill" ELSE "death"

\* C15: the notification being sent presents the event from the side of
\* the player the tick fetched it for: a "kill" when that player is the
\* event's killer, a "death" otherwise.
C15_ClassifiedFromTrackedPlayer ==
    pc = "send" =>
        Kind(Embed(Head(events), Head(players))) =
            IF Killer(Head(events)).Id = Head(players).player_data
            THEN "kill" ELSE "death"

\* C16: every event_id in the store is one whose notification was
\* delivered by a send that returned, in this process or an earlier one;
\* a send that raises adds nothing to the store.
C16_StoredOnlyAfterSendReturned ==
    /\ [](\A k \in processed_events : sentProc[k] >= 1 \/ k \in notifiedBefore)
    /\ [][\A retried \in BOOLEAN :
             SendRaises(retried) => processed_events' = processed_events]_vars

\* A tick ended by a send that raised, for the only event it was handed,
\* and the store is empty.
C16_Witness ==
    /\ tickResult = "send_raised"
    /\ Cardinality(tickFetched) = 1
    /\ processed_events = {}

\* C17: once on_ready has set the database handle and started the loop, an
\* on_ready that runs again with the database reachable leaves the handle
\* set and the loop active.
C17_RepeatedOnReadyKeepsDb ==
    [][(on_ready(TRUE) /\ db # None /\ TaskActive) =>
           /\ db' # None
           /\ loop' \in {"before_loop", "sleeping", "running"}]_vars

\* C18: with the database and the channel there, no fetch or send failing
\* and the scheduler fair, a running tick reaches its end, and at its end
\* every event_id it was handed is in the store, notified exactly once by
\* this tick unless it was in the store when the tick began.
C18_FetchedUnseenEventuallyNotified ==
    /\ [](tickResult = "completed" =>
            \A k \in tickFetched :
                /\ k \in processed_events
                /\ k \notin tickStartStore => sentTick[k] = 1)
    /\ \A k \in EventKeys :
          (tickResult = "running" /\ k \in tickFetched /\ k \notin tickStartStore)
              ~> (tickResult = "completed" /\ sentTick[k] = 1 /\ k \in processed_events)

\* A tick was handed two new events and ended with both notified and
\* stored.
C18_Witness ==
    /\ tickResult = "completed"
    /\ tickStartStore = {}
    /\ Cardinality(tickFetched) = 2
    /\ \A k \in tickFetched : sentTick[k] = 1 /\ k \in processed_events

====
